---- MODULE Spec2Model ----
(***************************************************************************)
(* A model of the action-manifest tooling of oscpie:                       *)
(*   - the name canonicalizers of utils/generate_action_codes.ts,          *)
(*   - code(), the generator of the typed binding surface,                 *)
(*   - validateManifest / validateBindings and the validator's main()      *)
(*     of packages/oscpie/utils/validate_action_manifests.ts,              *)
(*   - the generator's main().                                             *)
(*                                                                         *)
(* A string is a sequence of one-character strings, so that replaceAll and *)
(* the /^_/ replacement act on characters as they do in the source.        *)
(* Generated Rust text is kept as the sequence of items the templates emit *)
(* (identifier, callee, arguments); the whitespace of the templates is not *)
(* represented.                                                            *)
(***************************************************************************)
EXTENDS Integers, Sequences, FiniteSets, TLC

VARIABLES
    \* --- canonicalizer runs
    raw,            \* the name handed to the canonicalizers
    canonAction,    \* <<canonicalizedActionName(raw)>> once computed
    canonSet,       \* <<canonicalizedActionSetName(raw)>> once computed
    canonAgain,     \* canonicalizedActionName applied again, and again: <<c(x), c(c(x))>>
    \* --- the files and the command line
    manifestFile,   \* what is at manifestPath
    allowMissingLocalization, \* the --allow-missing-localization flag
    \* --- the validator process
    vpc,            \* position in validate_action_manifests.ts
    parsedManifest, \* parsedManifest.data, once the schema check has passed
    locIdx,         \* index of the localization entry the first loop is at
    bindIdx,        \* index of the default binding the second loop is at
    reads,          \* binding files read so far: <<[url, content]>>
    vResult,        \* what validateManifest returned: <<>> or <<[success, data]>>
    vErr,           \* lines the validator wrote with console.error
    vOut,           \* lines the validator wrote with console.log
    vExit,          \* exit code of the validator process: <<>> while running
    \* --- the generator process
    gpc,            \* position in generate_action_codes.ts
    actionManifest, \* the parsed manifest main() hands to code()
    preludeCode,    \* the prelude after the stub has been cut
    generatedCode,  \* <<code(actionManifest)>> once generated
    outputFile,     \* what is at generatedPath: <<>> untouched, else <<content>>
    writes,         \* number of Deno.writeTextFileSync calls so far
    gErr,           \* lines the generator wrote with console.error
    gExit           \* exit code of the generator process: <<>> while running

canonVars == <<raw, canonAction, canonSet, canonAgain>>
worldVars == <<manifestFile, allowMissingLocalization>>
validatorVars == <<vpc, parsedManifest, locIdx, bindIdx, reads, vResult, vErr, vOut, vExit>>
generatorVars == <<gpc, actionManifest, preludeCode, generatedCode, outputFile, writes, gErr, gExit>>
vars == <<canonVars, worldVars, validatorVars, generatorVars>>

(***************************************************************************)
(* Bounds                                                                  *)
(***************************************************************************)
MaxLen == 3
MaxActions == 2
MaxSets == 2
MaxLocalizations == 2
MaxBindings == 2

(***************************************************************************)
(* Strings                                                                 *)
(***************************************************************************)
RECURSIVE SeqsUpTo(_, _)
SeqsUpTo(S, n) ==
    IF n = 0 THEN {<<>>}
    ELSE LET shorter == SeqsUpTo(S, n - 1)
         IN  shorter \cup {Append(s, x) : s \in {t \in shorter : Len(t) = n - 1}, x \in S}

StartsWith(s, p) == Len(s) >= Len(p) /\ SubSeq(s, 1, Len(p)) = p

Alphabet == {"/", "_", "a"}

\* The names of the spec's examples.
SlashFooSlashBar == <<"/", "f", "o", "o", "/", "b", "a", "r">>
FooSlashBar == <<"f", "o", "o", "/", "b", "a", "r">>
SlashFoo == <<"/", "f", "o", "o">>
FooUnderscoreBar == <<"f", "o", "o", "_", "b", "a", "r">>
Foo == <<"f", "o", "o">>

RawNames == SeqsUpTo(Alphabet, MaxLen) \cup {SlashFooSlashBar, FooSlashBar, SlashFoo}

(***************************************************************************)
(* String.prototype.replaceAll / replace with a one-character pattern, and *)
(* replace with the regular expression /^_/.                               *)
(***************************************************************************)
RECURSIVE replaceAll(_, _, _)
replaceAll(s, pattern, replacement) ==
    IF s = <<>> THEN <<>>
    ELSE <<IF Head(s) = pattern THEN replacement ELSE Head(s)>>
             \o replaceAll(Tail(s), pattern, replacement)

RECURSIVE replaceFirst(_, _, _)
replaceFirst(s, pattern, replacement) ==
    IF s = <<>> THEN <<>>
    ELSE IF Head(s) = pattern THEN <<replacement>> \o Tail(s)
    ELSE <<Head(s)>> \o replaceFirst(Tail(s), pattern, replacement)

replaceLeadingUnderscore(s) ==
    IF s # <<>> /\ Head(s) = "_" THEN Tail(s) ELSE s

\* A canonicalizer that replaces only the first "/".
canonicalizedFirstSlashOnly(actionName) ==
    replaceLeadingUnderscore(replaceFirst(actionName, "/", "_"))

\* A canonicalizer that leaves the leading "_" in place.
canonicalizedKeepLeading(actionName) ==
    replaceAll(actionName, "/", "_")

canonicalizedActionName(actionName) ==
    replaceLeadingUnderscore(replaceAll(actionName, "/", "_"))

canonicalizedActionSetName(actionSetName) ==
    replaceLeadingUnderscore(replaceAll(actionSetName, "/", "_"))

(***************************************************************************)
(* The schema model (action_manifest_types.ts).  A manifest is a record of *)
(* its four lists; a localization entry is the set of its keys; a default  *)
(* binding is its binding_url.  Optional fields that no code reads         *)
(* (requirement, skeleton, controller_type) are left out.                  *)
(***************************************************************************)
ActionTypes == {"boolean", "vibration", "vector1", "vector2", "vector3", "pose", "skeleton"}

Usages == {"leftright", "single"}

LANGUAGE_TAG == <<"l", "a", "n", "g", "u", "a", "g", "e", "_", "t", "a", "g">>

BindingFileKeys == {"bindings", "controller_type", "description", "name"}

ActionSchema(action) == action.type \in ActionTypes

ActionSetSchema(actionSet) == actionSet.usage \in Usages

LocalizationSchema(localization) == LANGUAGE_TAG \in localization

\* ActionManifestSchema accepts a parsed JSON value.
ActionManifestSchema(document) ==
    /\ document.kind = "object"
    /\ \A i \in DOMAIN document.value.actions : ActionSchema(document.value.actions[i])
    /\ \A i \in DOMAIN document.value.action_sets : ActionSetSchema(document.value.action_sets[i])
    /\ \A i \in DOMAIN document.value.localization : LocalizationSchema(document.value.localization[i])

\* BindingFileSchema accepts a parsed JSON value: an object with its four keys.
BindingFileSchema(document) ==
    document.kind = "object" /\ BindingFileKeys \subseteq document.keys

(***************************************************************************)
(* The code generator (generate_action_codes.ts).                          *)
(***************************************************************************)
INPUT_ACTIONS == {"boolean", "vector1", "vector2", "vector3", "pose", "skeleton"}

GET_ == <<"g", "e", "t", "_">>
ACTION_HANDLE_ == <<"a", "c", "t", "i", "o", "n", "_", "h", "a", "n", "d", "l", "e", "_">>
ACTION_SET_HANDLE_ ==
    <<"a", "c", "t", "i", "o", "n", "_", "s", "e", "t", "_", "h", "a", "n", "d", "l", "e", "_">>
ACTIVATE_ == <<"a", "c", "t", "i", "v", "a", "t", "e", "_">>
DEACTIVATE_ == <<"d", "e">> \o ACTIVATE_

\* One emitted function: pub fn <fn>(&self, <params>) -> <returns> { self.<callee>(<args>) },
\* each argument a parameter ("param") or self.generated_fields.<name> ("field").
inputActionFunctionByType(actionType, actionName) ==
    CASE actionType = "boolean" ->
           [fn |-> GET_ \o actionName, params |-> <<>>, returns |-> "Result<BooleanInput>",
            callee |-> "get_digital_action_data",
            args |-> <<[kind |-> "field", name |-> ACTION_HANDLE_ \o actionName]>>]
      [] actionType = "vector1" ->
           [fn |-> GET_ \o actionName, params |-> <<>>, returns |-> "Result<Vector1Input>",
            callee |-> "get_vector1_action_data",
            args |-> <<[kind |-> "field", name |-> ACTION_HANDLE_ \o actionName]>>]
      [] actionType = "vector2" ->
           [fn |-> GET_ \o actionName, params |-> <<>>, returns |-> "Result<Vector2Input>",
            callee |-> "get_vector2_action_data",
            args |-> <<[kind |-> "field", name |-> ACTION_HANDLE_ \o actionName]>>]
      [] actionType = "vector3" ->
           [fn |-> GET_ \o actionName, params |-> <<>>, returns |-> "Result<Vector3Input>",
            callee |-> "get_vector3_action_data",
            args |-> <<[kind |-> "field", name |-> ACTION_HANDLE_ \o actionName]>>]
      [] actionType = "pose" ->
           [fn |-> GET_ \o actionName, params |-> <<"tracking_universe_origin">>,
            returns |-> "Result<PoseInput>",
            callee |-> "get_pose_action_data",
            args |-> <<[kind |-> "param", name |-> <<"tracking_universe_origin">>],
                     [kind |-> "field", name |-> ACTION_HANDLE_ \o actionName]>>]
      [] actionType = "skeleton" ->
           [fn |-> GET_ \o actionName, params |-> <<>>, returns |-> "Result<SkeletonOutput>",
            callee |-> "todo!", args |-> <<>>]

\* An isInputAction whose list lacks "skeleton".
isInputActionWithoutSkeleton(actionType) == actionType \in INPUT_ACTIONS \ {"skeleton"}

isInputAction(actionType) == actionType \in INPUT_ACTIONS

NoFunction == [fn |-> <<>>, params |-> <<>>, returns |-> "", callee |-> "", args |-> <<>>]

\* threw: the "Invalid action type" Error.
inputActionFunction(actionName, actionType) ==
    IF ~isInputAction(actionType)
    THEN [threw |-> TRUE, function |-> NoFunction]
    ELSE [threw |-> FALSE,
          function |-> inputActionFunctionByType(actionType, canonicalizedActionName(actionName))]

initFunction(manifest) == <<>>

inputActionFunctions(manifest) ==
    LET keep(action) == isInputAction(action.type)
        emit(action) == inputActionFunction(action.name, action.type)
        kept == SelectSeq(manifest.actions, keep)
        emitted == [i \in DOMAIN kept |-> emit(kept[i])]
    IN  [threw |-> \E i \in DOMAIN emitted : emitted[i].threw,
         functions |-> [i \in DOMAIN emitted |-> emitted[i].function]]

\* Activation functions whose deactivate_ function calls activate_action_set.
activationFunctionsBothActivate(manifest) ==
    LET control(prefix, actionSet) ==
            [fn |-> prefix \o canonicalizedActionSetName(actionSet.name),
             callee |-> "activate_action_set",
             args |-> <<[kind |-> "field",
                         name |-> ACTION_SET_HANDLE_ \o canonicalizedActionSetName(actionSet.name)]>>]
    IN  [i \in 1..(2 * Len(manifest.action_sets)) |->
            IF i % 2 = 1 THEN control(ACTIVATE_, manifest.action_sets[(i + 1) \div 2])
            ELSE control(DEACTIVATE_, manifest.action_sets[i \div 2])]

\* Two emitted functions per action set, in the order of the template.
activationFunctions(manifest) ==
    LET activate(actionSet) ==
            [fn |-> ACTIVATE_ \o canonicalizedActionSetName(actionSet.name),
             callee |-> "activate_action_set",
             args |-> <<[kind |-> "field",
                         name |-> ACTION_SET_HANDLE_ \o canonicalizedActionSetName(actionSet.name)]>>]
        deactivate(actionSet) ==
            [fn |-> DEACTIVATE_ \o canonicalizedActionSetName(actionSet.name),
             callee |-> "deactivate_action_set",
             args |-> <<[kind |-> "field",
                         name |-> ACTION_SET_HANDLE_ \o canonicalizedActionSetName(actionSet.name)]>>]
    IN  [i \in 1..(2 * Len(manifest.action_sets)) |->
            IF i % 2 = 1 THEN activate(manifest.action_sets[(i + 1) \div 2])
            ELSE deactivate(manifest.action_sets[i \div 2])]

\* fn generate_fields: the let statements, then the fields of the GeneratedFields literal.
fieldGenerationFunction(manifest) ==
    LET actionDeclaration(action) ==
            [let |-> ACTION_HANDLE_ \o canonicalizedActionName(action.name),
             callee |-> "get_action_handle", path |-> action.name]
        actionField(action) == ACTION_HANDLE_ \o canonicalizedActionName(action.name)
        actionSetDeclaration(actionSet) ==
            [let |-> ACTION_SET_HANDLE_ \o canonicalizedActionSetName(actionSet.name),
             callee |-> "get_action_set_handle", path |-> actionSet.name]
        actionSetField(actionSet) ==
            ACTION_SET_HANDLE_ \o canonicalizedActionSetName(actionSet.name)
    IN  [declarations |->
             [i \in DOMAIN manifest.actions |-> actionDeclaration(manifest.actions[i])]
               \o [i \in DOMAIN manifest.action_sets |->
                      actionSetDeclaration(manifest.action_sets[i])],
         fields |->
             [i \in DOMAIN manifest.actions |-> actionField(manifest.actions[i])]
               \o [i \in DOMAIN manifest.action_sets |->
                      actionSetField(manifest.action_sets[i])]]

\* A GeneratedFields structure that holds the action handles only.
generatedFieldsActionsOnly(manifest) ==
    [i \in DOMAIN manifest.actions |->
        [field |-> ACTION_HANDLE_ \o canonicalizedActionName(manifest.actions[i].name),
         type |-> "sys::VRActionHandle_t"]]

\* struct GeneratedFields
generatedFields(manifest) ==
    LET generatedActionField(action) ==
            [field |-> ACTION_HANDLE_ \o canonicalizedActionName(action.name),
             type |-> "sys::VRActionHandle_t"]
        generatedActionSetField(actionSet) ==
            [field |-> ACTION_SET_HANDLE_ \o canonicalizedActionSetName(actionSet.name),
             type |-> "sys::VRActionSetHandle_t"]
    IN  [i \in DOMAIN manifest.actions |-> generatedActionField(manifest.actions[i])]
          \o [i \in DOMAIN manifest.action_sets |->
                 generatedActionSetField(manifest.action_sets[i])]

\* The generated unit: impl Input { ... } followed by struct GeneratedFields { ... }.
code(manifest) ==
    [threw |-> inputActionFunctions(manifest).threw,
     unit |-> [init |-> initFunction(manifest),
               generate_fields |-> fieldGenerationFunction(manifest),
               accessors |-> inputActionFunctions(manifest).functions,
               controls |-> activationFunctions(manifest),
               struct |-> generatedFields(manifest)]]

(***************************************************************************)
(* The inputs: what may be at manifestPath, at a binding path and at       *)
(* preludePath.  A file is missing, is not JSON ("badjson"), or holds a    *)
(* JSON value: a falsy one ("null": null, false, 0, ""), a truthy value    *)
(* that is no object ("scalar"), or an object.                             *)
(***************************************************************************)
SlashA == <<"/", "a">>
JustA == <<"a">>
SlashB == <<"/", "b">>
SlashS == <<"/", "s">>
JustS == <<"s">>

EmptyManifest ==
    [default_bindings |-> <<>>, actions |-> <<>>, action_sets |-> <<>>, localization |-> <<>>]

DefaultBindingLists ==
    {[i \in 1..n |-> [binding_url |-> i]] : n \in 0..MaxBindings}

\* Manifests the validator and the generator entry points are run on.
ManifestValues ==
    [default_bindings : DefaultBindingLists,
     actions : SeqsUpTo({[name |-> n, type |-> "boolean"] : n \in {SlashA, LANGUAGE_TAG}}, MaxActions),
     action_sets : SeqsUpTo({[name |-> SlashS, usage |-> "single"]}, MaxSets),
     localization : SeqsUpTo({{LANGUAGE_TAG}, {LANGUAGE_TAG, SlashA}}, MaxLocalizations)]

\* Objects that break the schema: an action type outside the seven, a usage
\* outside the two, a localization entry without language_tag.
SchemaViolations ==
    {[EmptyManifest EXCEPT !.actions = <<[name |-> SlashA, type |-> "button"]>>],
     [EmptyManifest EXCEPT !.action_sets = <<[name |-> SlashS, usage |-> "hidden"]>>],
     [EmptyManifest EXCEPT !.localization = <<{SlashA}>>]}

ManifestFiles ==
    {[kind |-> k, value |-> EmptyManifest] : k \in {"missing", "badjson", "null", "scalar"}}
      \cup {[kind |-> "object", value |-> v] : v \in ManifestValues \cup SchemaViolations}

\* Manifests code() is applied to on its own: every action type, and names
\* that canonicalize alike.
CodeManifests ==
    [default_bindings : {<<>>},
     actions : SeqsUpTo([name : {SlashA, JustA, SlashB}, type : ActionTypes], MaxActions),
     action_sets : SeqsUpTo({[name |-> SlashS, usage |-> "single"],
                             [name |-> JustS, usage |-> "leftright"]}, MaxSets),
     localization : {<<>>}]

BindingFiles ==
    {[kind |-> k, keys |-> {}] : k \in {"missing", "badjson", "null", "scalar"}}
      \cup {[kind |-> "object", keys |-> BindingFileKeys \ {"name"}],
            [kind |-> "object", keys |-> BindingFileKeys]}

PreludeFiles ==
    {[kind |-> "missing", lines |-> <<>>],
     [kind |-> "text", lines |-> <<"use openvr_sys as sys;", "">>],
     [kind |-> "text", lines |-> <<"impl Input {", "// STUB_FOLLOWS", "fn stub() {}">>]}

\* path.resolve(path.dirname(manifestPath), binding_url) for a relative binding_url
resolve(dir, bindingUrl) == [dir |-> dir, file |-> bindingUrl]

dirname(path) == "dirname(manifestPath)"

(***************************************************************************)
(* The validator (validate_action_manifests.ts).                           *)
(***************************************************************************)
VALIDATION_FAILED == [success |-> FALSE, data |-> EmptyManifest]

\* JSON.parse(Deno.readTextFileSync(path)) throws for a missing file and for
\* text that is not JSON.
ReadJsonThrows(file) == file.kind \in {"missing", "badjson"}

Falsy(file) == file.kind = "null"

\* validateBindings: threw, or the result with the lines written to console.error
validateBindings(bindingPath, file) ==
    IF ReadJsonThrows(file)
    THEN [threw |-> TRUE, success |-> FALSE, errors |-> <<>>]
    ELSE IF Falsy(file)
    THEN [threw |-> FALSE, success |-> FALSE,
          errors |-> <<"Failed to read or parse the binding file at bindingPath.">>]
    ELSE IF ~BindingFileSchema(file)
    THEN [threw |-> FALSE, success |-> FALSE,
          errors |-> <<"Binding validation failed for bindingPath: errors">>]
    ELSE [threw |-> FALSE, success |-> TRUE, errors |-> <<>>]

\* missingActions without the skip of "language_tag".
missingActionsCountingLanguageTag(manifest, localization) ==
    {manifest.actions[i].name : i \in DOMAIN manifest.actions} \ localization

\* missingActions after the inner loop over Object.entries(localization)
missingActions(manifest, localization) ==
    {manifest.actions[i].name : i \in DOMAIN manifest.actions}
        \ {actionId \in localization : actionId # LANGUAGE_TAG}

\* main, lines 144-155: the argument check.
ValidatorMain ==
    /\ vpc = "main"
    /\ \E manifestPathIsString \in BOOLEAN :
         IF manifestPathIsString
         THEN /\ vpc' = "validateManifest"
              /\ UNCHANGED <<vErr, vExit>>
         ELSE /\ vErr' = Append(vErr, "Please provide the path to the action manifest file.")
              /\ vExit' = <<1>>
              /\ vpc' = "exited"
    /\ UNCHANGED <<parsedManifest, locIdx, bindIdx, reads, vResult, vOut>>
    /\ UNCHANGED <<canonVars, worldVars, generatorVars>>

\* validateManifest, lines 57-62.  An exception nothing catches ends the
\* process: Deno prints it and exits with code 1.
validateManifest_Read ==
    /\ vpc = "validateManifest"
    /\ IF ReadJsonThrows(manifestFile)
       THEN /\ vpc' = "threw"
            /\ vExit' = <<1>>
            /\ UNCHANGED <<vErr, vResult>>
       ELSE IF Falsy(manifestFile)
       THEN /\ vErr' = Append(vErr, "Failed to read or parse the manifest file.")
            /\ vResult' = <<VALIDATION_FAILED>>
            /\ vpc' = "returned"
            /\ UNCHANGED vExit
       ELSE /\ vpc' = "safeParse"
            /\ UNCHANGED <<vErr, vResult, vExit>>
    /\ UNCHANGED <<parsedManifest, locIdx, bindIdx, reads, vOut>>
    /\ UNCHANGED <<canonVars, worldVars, generatorVars>>

\* validateManifest, lines 64-72.
validateManifest_Schema ==
    /\ vpc = "safeParse"
    /\ IF ~ActionManifestSchema(manifestFile)
       THEN /\ vErr' = Append(vErr, "Manifest validation failed: errors")
            /\ vResult' = <<VALIDATION_FAILED>>
            /\ vpc' = "returned"
            /\ UNCHANGED <<parsedManifest, locIdx>>
       ELSE /\ parsedManifest' = manifestFile.value
            /\ locIdx' = 1
            /\ vpc' = "localization"
            /\ UNCHANGED <<vErr, vResult>>
    /\ UNCHANGED <<bindIdx, reads, vOut, vExit>>
    /\ UNCHANGED <<canonVars, worldVars, generatorVars>>

\* A loop over the localization entries that reports a deficient entry and goes
\* on, whatever the flag.
validateManifest_LocalizationGoesOn ==
    /\ vpc = "localization"
    /\ locIdx <= Len(parsedManifest.localization)
    /\ LET missing == missingActions(parsedManifest, parsedManifest.localization[locIdx])
       IN  IF missing # {}
           THEN /\ vErr' = Append(vErr, "Localization is missing for actions: names")
                /\ locIdx' = locIdx + 1
                /\ UNCHANGED <<vResult, vpc>>
           ELSE /\ locIdx' = locIdx + 1
                /\ UNCHANGED <<vErr, vResult, vpc>>
    /\ UNCHANGED <<parsedManifest, bindIdx, reads, vOut, vExit>>
    /\ UNCHANGED <<canonVars, worldVars, generatorVars>>

\* validateManifest, lines 74-100: one turn of the loop over the localization entries.
validateManifest_Localization ==
    /\ vpc = "localization"
    /\ locIdx <= Len(parsedManifest.localization)
    /\ LET missing == missingActions(parsedManifest, parsedManifest.localization[locIdx])
       IN  IF missing # {}
           THEN /\ vErr' = Append(vErr, "Localization is missing for actions: names")
                /\ IF ~allowMissingLocalization
                   THEN /\ vResult' = <<VALIDATION_FAILED>>
                        /\ vpc' = "returned"
                        /\ UNCHANGED locIdx
                   ELSE /\ locIdx' = locIdx + 1
                        /\ UNCHANGED <<vResult, vpc>>
           ELSE /\ locIdx' = locIdx + 1
                /\ UNCHANGED <<vErr, vResult, vpc>>
    /\ UNCHANGED <<parsedManifest, bindIdx, reads, vOut, vExit>>
    /\ UNCHANGED <<canonVars, worldVars, generatorVars>>

\* validateManifest, line 74 to line 102: the first loop ends, the second begins.
validateManifest_LocalizationDone ==
    /\ vpc = "localization"
    /\ locIdx > Len(parsedManifest.localization)
    /\ bindIdx' = 1
    /\ vpc' = "bindings"
    /\ UNCHANGED <<parsedManifest, locIdx, reads, vResult, vErr, vOut, vExit>>
    /\ UNCHANGED <<canonVars, worldVars, generatorVars>>

\* A loop over default_bindings that reports a failed binding file and goes on
\* to the next one.
validateManifest_BindingGoesOn ==
    /\ vpc = "bindings"
    /\ bindIdx <= Len(parsedManifest.default_bindings)
    /\ \E file \in BindingFiles :
         LET bindingPath == resolve(dirname("manifestPath"),
                                    parsedManifest.default_bindings[bindIdx].binding_url)
             parsedBindings == validateBindings(bindingPath, file)
         IN  /\ reads' = Append(reads, [path |-> bindingPath, file |-> file])
             /\ IF parsedBindings.threw
                THEN /\ vpc' = "threw"
                     /\ vExit' = <<1>>
                     /\ UNCHANGED <<vErr, vResult, bindIdx>>
                ELSE IF ~parsedBindings.success
                THEN /\ vErr' = Append(vErr \o parsedBindings.errors,
                                       "Binding validation failed for bindingPath.")
                     /\ bindIdx' = bindIdx + 1
                     /\ UNCHANGED <<vExit, vResult, vpc>>
                ELSE /\ bindIdx' = bindIdx + 1
                     /\ UNCHANGED <<vErr, vResult, vpc, vExit>>
    /\ UNCHANGED <<parsedManifest, locIdx, vOut>>
    /\ UNCHANGED <<canonVars, worldVars, generatorVars>>

\* validateManifest, lines 102-114, with the call of validateBindings (25-51):
\* one turn of the loop over default_bindings.  What is at the binding path is
\* the file system's answer at the time of the read.
validateManifest_Binding ==
    /\ vpc = "bindings"
    /\ bindIdx <= Len(parsedManifest.default_bindings)
    /\ \E file \in BindingFiles :
         LET bindingPath == resolve(dirname("manifestPath"),
                                    parsedManifest.default_bindings[bindIdx].binding_url)
             parsedBindings == validateBindings(bindingPath, file)
         IN  /\ reads' = Append(reads, [path |-> bindingPath, file |-> file])
             /\ IF parsedBindings.threw
                THEN /\ vpc' = "threw"
                     /\ vExit' = <<1>>
                     /\ UNCHANGED <<vErr, vResult, bindIdx>>
                ELSE IF ~parsedBindings.success
                THEN /\ vErr' = Append(vErr \o parsedBindings.errors,
                                       "Binding validation failed for bindingPath.")
                     /\ vResult' = <<VALIDATION_FAILED>>
                     /\ vpc' = "returned"
                     /\ UNCHANGED <<vExit, bindIdx>>
                ELSE /\ bindIdx' = bindIdx + 1
                     /\ UNCHANGED <<vErr, vResult, vpc, vExit>>
    /\ UNCHANGED <<parsedManifest, locIdx, vOut>>
    /\ UNCHANGED <<canonVars, worldVars, generatorVars>>

\* validateManifest, lines 138-141.
validateManifest_Return ==
    /\ vpc = "bindings"
    /\ bindIdx > Len(parsedManifest.default_bindings)
    /\ vResult' = <<[success |-> TRUE, data |-> parsedManifest]>>
    /\ vpc' = "returned"
    /\ UNCHANGED <<parsedManifest, locIdx, bindIdx, reads, vErr, vOut, vExit>>
    /\ UNCHANGED <<canonVars, worldVars, generatorVars>>

\* main, lines 156-161.
ValidatorMain_Report ==
    /\ vpc = "returned"
    /\ IF vResult[1].success
       THEN /\ vOut' = Append(vOut, "Manifest is valid.")
            /\ vExit' = <<0>>
            /\ UNCHANGED vErr
       ELSE /\ vErr' = Append(vErr, "Manifest validation failed.")
            /\ vExit' = <<1>>
            /\ UNCHANGED vOut
    /\ vpc' = "exited"
    /\ UNCHANGED <<parsedManifest, locIdx, bindIdx, reads, vResult>>
    /\ UNCHANGED <<canonVars, worldVars, generatorVars>>

ValidatorNext ==
    \/ ValidatorMain
    \/ validateManifest_Read
    \/ validateManifest_Schema
    \/ validateManifest_Localization
    \/ validateManifest_LocalizationDone
    \/ validateManifest_Binding
    \/ validateManifest_Return
    \/ ValidatorMain_Report

ValidatorEnded == vpc \in {"exited", "threw"}

(***************************************************************************)
(* The generator's main (generate_action_codes.ts, lines 254-288).         *)
(***************************************************************************)
generationNotice ==
    "// This file is generated by utils/generate_action_codes.ts. Do not edit it manually."

\* .replace(/\/\/\s*STUB_FOLLOWS.*/s, ""): the text from the marker on is cut.
RECURSIVE cutStub(_)
cutStub(lines) ==
    IF lines = <<>> \/ Head(lines) = "// STUB_FOLLOWS" THEN <<>>
    ELSE <<Head(lines)>> \o cutStub(Tail(lines))

\* flatCode: the lines that are empty once trimmed are dropped.
flatCode(text) ==
    LET nonEmpty(line) == line # ""
    IN  [text EXCEPT !.prelude = SelectSeq(@, nonEmpty)]

\* lines 254-269: the argument check.
GeneratorMain ==
    /\ gpc = "main"
    /\ \E pathsAreStrings \in BOOLEAN :
         IF pathsAreStrings
         THEN /\ gpc' = "readManifest"
              /\ UNCHANGED <<gErr, gExit>>
         ELSE /\ gErr' = Append(gErr, "Please provide the path to the action manifest file, the prelude file and the output file.")
              /\ gExit' = <<1>>
              /\ gpc' = "exited"
    /\ UNCHANGED <<actionManifest, preludeCode, generatedCode, outputFile, writes>>
    /\ UNCHANGED <<canonVars, worldVars, validatorVars>>

\* A manifest read that takes the JSON value as it is, without the schema.
GeneratorMain_ReadManifestUnchecked ==
    /\ gpc = "readManifest"
    /\ IF ReadJsonThrows(manifestFile)
       THEN /\ gpc' = "threw"
            /\ gExit' = <<1>>
            /\ UNCHANGED actionManifest
       ELSE /\ actionManifest' = manifestFile.value
            /\ gpc' = "readPrelude"
            /\ UNCHANGED gExit
    /\ UNCHANGED <<preludeCode, generatedCode, outputFile, writes, gErr>>
    /\ UNCHANGED <<canonVars, worldVars, validatorVars>>

\* lines 271-273: JSON.parse throws for a missing file and for bad JSON,
\* ActionManifestSchema.parse throws for a value the schema rejects.
GeneratorMain_ReadManifest ==
    /\ gpc = "readManifest"
    /\ IF ReadJsonThrows(manifestFile) \/ ~ActionManifestSchema(manifestFile)
       THEN /\ gpc' = "threw"
            /\ gExit' = <<1>>
            /\ UNCHANGED actionManifest
       ELSE /\ actionManifest' = manifestFile.value
            /\ gpc' = "readPrelude"
            /\ UNCHANGED gExit
    /\ UNCHANGED <<preludeCode, generatedCode, outputFile, writes, gErr>>
    /\ UNCHANGED <<canonVars, worldVars, validatorVars>>

\* A prelude read that first writes the notice to the output file.
GeneratorMain_ReadPreludeAfterNotice ==
    /\ gpc = "readPrelude"
    /\ outputFile' = <<[notice |-> generationNotice, prelude |-> <<>>, unit |-> code(EmptyManifest).unit]>>
    /\ \E file \in PreludeFiles :
         IF file.kind = "missing"
         THEN /\ gpc' = "threw"
              /\ gExit' = <<1>>
              /\ UNCHANGED preludeCode
         ELSE /\ preludeCode' = cutStub(file.lines)
              /\ gpc' = "generate"
              /\ UNCHANGED gExit
    /\ UNCHANGED <<actionManifest, generatedCode, writes, gErr>>
    /\ UNCHANGED <<canonVars, worldVars, validatorVars>>

\* lines 275-281: what is at preludePath is the file system's answer at the read.
GeneratorMain_ReadPrelude ==
    /\ gpc = "readPrelude"
    /\ \E file \in PreludeFiles :
         IF file.kind = "missing"
         THEN /\ gpc' = "threw"
              /\ gExit' = <<1>>
              /\ UNCHANGED preludeCode
         ELSE /\ preludeCode' = cutStub(file.lines)
              /\ gpc' = "generate"
              /\ UNCHANGED gExit
    /\ UNCHANGED <<actionManifest, generatedCode, outputFile, writes, gErr>>
    /\ UNCHANGED <<canonVars, worldVars, validatorVars>>

\* line 282.
GeneratorMain_Generate ==
    /\ gpc = "generate"
    /\ LET generated == code(actionManifest)
       IN  IF generated.threw
           THEN /\ gpc' = "threw"
                /\ gExit' = <<1>>
                /\ UNCHANGED generatedCode
           ELSE /\ generatedCode' = <<generated.unit>>
                /\ gpc' = "write"
                /\ UNCHANGED gExit
    /\ UNCHANGED <<actionManifest, preludeCode, outputFile, writes, gErr>>
    /\ UNCHANGED <<canonVars, worldVars, validatorVars>>

\* lines 284-288.
GeneratorMain_Write ==
    /\ gpc = "write"
    /\ outputFile' = <<flatCode([notice |-> generationNotice,
                                 prelude |-> preludeCode,
                                 unit |-> generatedCode[1]])>>
    /\ writes' = writes + 1
    /\ gExit' = <<0>>
    /\ gpc' = "exited"
    /\ UNCHANGED <<actionManifest, preludeCode, generatedCode, gErr>>
    /\ UNCHANGED <<canonVars, worldVars, validatorVars>>

(***************************************************************************)
(* Runs of the canonicalizers on a name.                                   *)
(***************************************************************************)
CanonicalizeAction ==
    /\ canonAction = <<>>
    /\ canonAction' = <<canonicalizedActionName(raw)>>
    /\ UNCHANGED <<raw, canonSet, canonAgain>>
    /\ UNCHANGED <<worldVars, validatorVars, generatorVars>>

CanonicalizeSet ==
    /\ canonSet = <<>>
    /\ canonSet' = <<canonicalizedActionSetName(raw)>>
    /\ UNCHANGED <<raw, canonAction, canonAgain>>
    /\ UNCHANGED <<worldVars, validatorVars, generatorVars>>

\* The canonicalizer applied to its own result.
CanonicalizeAgain ==
    /\ canonAction # <<>>
    /\ Len(canonAgain) < 2
    /\ canonAgain' = Append(canonAgain,
                            canonicalizedActionName(IF canonAgain = <<>> THEN canonAction[1]
                                                    ELSE canonAgain[Len(canonAgain)]))
    /\ UNCHANGED <<raw, canonAction, canonSet>>
    /\ UNCHANGED <<worldVars, validatorVars, generatorVars>>

(***************************************************************************)
(* Specifications                                                          *)
(***************************************************************************)
CanonIdle == raw = <<>> /\ canonAction = <<>> /\ canonSet = <<>> /\ canonAgain = <<>>

WorldIdle == manifestFile = [kind |-> "missing", value |-> EmptyManifest]
             /\ allowMissingLocalization = FALSE

ValidatorStart(pc) ==
    /\ vpc = pc
    /\ parsedManifest = EmptyManifest
    /\ locIdx = 0
    /\ bindIdx = 0
    /\ reads = <<>>
    /\ vResult = <<>>
    /\ vErr = <<>>
    /\ vOut = <<>>
    /\ vExit = <<>>

GeneratorStart(pc) ==
    /\ gpc = pc
    /\ preludeCode = <<>>
    /\ generatedCode = <<>>
    /\ outputFile = <<>>
    /\ writes = 0
    /\ gErr = <<>>
    /\ gExit = <<>>

\* The validator is run on a manifest, then the generator on the same manifest.
Init ==
    /\ CanonIdle
    /\ manifestFile \in ManifestFiles
    /\ allowMissingLocalization \in BOOLEAN
    /\ ValidatorStart("main")
    /\ GeneratorStart("main")
    /\ actionManifest = EmptyManifest

Next ==
    \/ ValidatorNext
    \/ (ValidatorEnded /\ GeneratorMain)
    \/ (ValidatorEnded /\ GeneratorMain_ReadManifest)
    \/ (ValidatorEnded /\ GeneratorMain_ReadPrelude)
    \/ (ValidatorEnded /\ GeneratorMain_Generate)
    \/ (ValidatorEnded /\ GeneratorMain_Write)

Spec == Init /\ [][Next]_vars

\* code() applied to a parsed manifest.
InitCode ==
    /\ CanonIdle
    /\ WorldIdle
    /\ ValidatorStart("idle")
    /\ GeneratorStart("generate")
    /\ actionManifest \in CodeManifests

NextCode == GeneratorMain_Generate

SpecCode == InitCode /\ [][NextCode]_vars

\* The canonicalizers applied to a name.
InitCanon ==
    /\ raw \in RawNames
    /\ canonAction = <<>>
    /\ canonSet = <<>>
    /\ canonAgain = <<>>
    /\ WorldIdle
    /\ ValidatorStart("idle")
    /\ GeneratorStart("idle")
    /\ actionManifest = EmptyManifest

NextCanon ==
    \/ CanonicalizeAction
    \/ CanonicalizeSet
    \/ CanonicalizeAgain

SpecCanon == InitCanon /\ [][NextCanon]_vars

(***************************************************************************)
(* Properties                                                              *)
(***************************************************************************)
Range(s) == {s[i] : i \in DOMAIN s}

\* 1 when the name begins with a character that ends up as a leading "_".
LeadingCut(s) == IF s # <<>> /\ s[1] \in {"/", "_"} THEN 1 ELSE 0

\* c is s with every "/" turned into "_" and then at most one leading "_" removed,
\* stated position by position.
IsCanonicalFormOf(c, s) ==
    /\ Len(c) = Len(s) - LeadingCut(s)
    /\ \A i \in 1..Len(c) :
         c[i] = (IF s[i + LeadingCut(s)] = "/" THEN "_" ELSE s[i + LeadingCut(s)])

ExamplesHold(c, s) ==
    /\ s = SlashFooSlashBar => c = FooUnderscoreBar
    /\ s = FooSlashBar => c = FooUnderscoreBar
    /\ s = SlashFoo => c = Foo

\* C1: for every input string, each canonicalizer returns the input with every
\* "/" replaced by "_" and then at most one leading "_" removed; the three
\* examples come out as "foo_bar", "foo_bar" and "foo"; the action-name and the
\* action-set-name canonicalizer return the same string.
C1_CanonicalizeContract ==
    /\ canonAction # <<>> =>
         IsCanonicalFormOf(canonAction[1], raw) /\ ExamplesHold(canonAction[1], raw)
    /\ canonSet # <<>> =>
         IsCanonicalFormOf(canonSet[1], raw) /\ ExamplesHold(canonSet[1], raw)
    /\ (canonAction # <<>> /\ canonSet # <<>>) => canonAction = canonSet

\* Both canonicalizers have run on "//a": one leading "_" is removed, one is left.
C1_Witness ==
    /\ raw = <<"/", "/", "a">>
    /\ canonAction = <<(<<"_", "a">>)>>
    /\ canonSet = <<(<<"_", "a">>)>>

\* C2 as stated: for x = canonicalize(raw), canonicalize(canonicalize(x)) equals
\* canonicalize(x).
C2_IdempotentOnCanonical ==
    Len(canonAgain) = 2 => canonAgain[2] = canonAgain[1]

\* C2, amended: for x = canonicalize(raw) that does not begin with two
\* underscores, canonicalize(canonicalize(x)) equals canonicalize(x).
C2_IdempotentUnlessDoubleUnderscore ==
    (Len(canonAgain) = 2 /\ ~StartsWith(canonAction[1], <<"_", "_">>))
        => canonAgain[2] = canonAgain[1]

\* x = "_a" (from "//a"): canonicalize(x) = "a" = canonicalize(canonicalize(x)).
C2_Witness ==
    /\ canonAction = <<(<<"_", "a">>)>>
    /\ canonAgain = <<(<<"a">>), (<<"a">>)>>

\* validateManifest has been called and has ended: it returned or it threw.
ValidateManifestEnded == vResult # <<>> \/ vpc = "threw"

\* Every binding file read in this run is an object with the four keys.
BindingFilesAllValid ==
    \A i \in DOMAIN reads :
        reads[i].file.kind = "object" /\ BindingFileKeys \subseteq reads[i].file.keys

\* Some localization entry has no key equal to some declared action name.
LacksKeyOfAnAction(manifest) ==
    \E i \in DOMAIN manifest.localization : \E j \in DOMAIN manifest.actions :
        manifest.actions[j].name \notin manifest.localization[i]

\* Some localization entry has no key, other than language_tag, equal to some
\* declared action name.
LacksLocalizedKeyOfAnAction(manifest) ==
    \E i \in DOMAIN manifest.localization : \E j \in DOMAIN manifest.actions :
        manifest.actions[j].name \notin (manifest.localization[i] \ {LANGUAGE_TAG})

Success(manifest) == [success |-> TRUE, data |-> manifest]

\* C3 as stated: on a schema-valid manifest whose binding files are all valid,
\* validateManifest returns failure when some localization entry lacks a key for
\* a declared action name and the flag is off, and success carrying the parsed
\* manifest otherwise.
C3_LocalizationCoverage ==
    (ValidateManifestEnded /\ ActionManifestSchema(manifestFile) /\ BindingFilesAllValid)
        => vResult = <<IF LacksKeyOfAnAction(manifestFile.value) /\ ~allowMissingLocalization
                       THEN VALIDATION_FAILED
                       ELSE Success(manifestFile.value)>>

\* C3, amended: the same, where the key language_tag of an entry does not count
\* as a key for an action (an action named "language_tag" is always reported
\* missing).
C3_LocalizationCoverageBesidesLanguageTag ==
    (ValidateManifestEnded /\ ActionManifestSchema(manifestFile) /\ BindingFilesAllValid)
        => vResult = <<IF LacksLocalizedKeyOfAnAction(manifestFile.value) /\ ~allowMissingLocalization
                       THEN VALIDATION_FAILED
                       ELSE Success(manifestFile.value)>>

\* With the flag on, a manifest with an uncovered action and a valid binding
\* file has been accepted, after its diagnostic.
C3_Witness ==
    /\ allowMissingLocalization
    /\ LacksLocalizedKeyOfAnAction(manifestFile.value)
    /\ reads # <<>>
    /\ BindingFilesAllValid
    /\ vResult = <<Success(manifestFile.value)>>
    /\ "Localization is missing for actions: names" \in Range(vErr)

\* The binding file read last is missing, is not JSON, or fails BindingFileSchema.
LastBindingFileBad ==
    /\ reads # <<>>
    /\ LET file == reads[Len(reads)].file
       IN  \/ file.kind \in {"missing", "badjson"}
           \/ ~(file.kind = "object" /\ BindingFileKeys \subseteq file.keys)

\* C4: when a default binding's file does not exist, is not valid JSON or fails
\* the BindingFile schema, validateManifest returns the failure variant to its
\* caller, after a diagnostic.
C4_BindingFailureIsReturned ==
    LastBindingFileBad =>
        /\ vResult = <<VALIDATION_FAILED>>
        /\ "Binding validation failed for bindingPath." \in Range(vErr)

\* C5: when the manifest file is unreadable or is not valid JSON, validateManifest
\* returns the failure variant, and main then prints its failure line and exits 1.
C5_ParseFailureIsReturned ==
    (manifestFile.kind \in {"missing", "badjson"} /\ (ValidateManifestEnded \/ vpc = "safeParse"))
        => /\ vResult = <<VALIDATION_FAILED>>
           /\ vpc \in {"returned", "exited"}
           /\ vpc = "exited" =>
                 (vExit = <<1>> /\ vErr # <<>> /\ vErr[Len(vErr)] = "Manifest validation failed.")

GeneratorFailed == gpc = "threw" \/ (gpc = "exited" /\ gExit # <<0>>)

\* C7: the output file is written at most once and only as the last step, after
\* the argument check, the manifest read, parse and schema check, the prelude
\* read and the generation have succeeded; a run that fails leaves it untouched.
C7_OutputWrittenLastOrNever ==
    /\ writes <= 1
    /\ (writes = 0) = (outputFile = <<>>)
    /\ outputFile # <<>> =>
         /\ gpc = "exited" /\ gExit = <<0>> /\ gErr = <<>>
         /\ ActionManifestSchema(manifestFile)
         /\ actionManifest = manifestFile.value
         /\ generatedCode # <<>>
         /\ outputFile[1].unit = generatedCode[1]
         /\ outputFile[1].prelude = SelectSeq(preludeCode, LAMBDA line : line # "")
    /\ GeneratorFailed => outputFile = <<>>

\* The prelude could not be read after the manifest had been parsed: the run
\* failed and the output file is untouched.
C7_Witness ==
    /\ gpc = "threw"
    /\ ActionManifestSchema(manifestFile)
    /\ actionManifest = manifestFile.value
    /\ outputFile = <<>>

PairwiseDistinctNames(list) ==
    \A i, j \in DOMAIN list : i # j => list[i].name # list[j].name

\* The generated unit declares and stores a handle for the action: a let
\* statement fetching the handle of the action's path, the field in the
\* GeneratedFields literal and the field in the structure.
HasHandle(unit, action) ==
    LET field == ACTION_HANDLE_ \o canonicalizedActionName(action.name)
    IN  /\ [let |-> field, callee |-> "get_action_handle", path |-> action.name]
              \in Range(unit.generate_fields.declarations)
        /\ field \in Range(unit.generate_fields.fields)
        /\ [field |-> field, type |-> "sys::VRActionHandle_t"] \in Range(unit.struct)

\* The generated unit contains a function named get_<canonicalized name>.
HasAccessor(unit, action) ==
    \E i \in DOMAIN unit.accessors :
        unit.accessors[i].fn = GET_ \o canonicalizedActionName(action.name)

ReadTypes == {"boolean", "vector1", "vector2", "vector3", "pose", "skeleton"}

\* C8 as stated (for a manifest whose action names are pairwise distinct): the
\* unit holds a handle declaration and field for every action, and an accessor
\* get_<canonicalized name> for an action exactly when its type is one of
\* boolean, vector1, vector2, vector3, pose, skeleton.
C8_AccessorIffInputType ==
    (generatedCode # <<>> /\ PairwiseDistinctNames(actionManifest.actions)) =>
        \A i \in DOMAIN actionManifest.actions :
            LET action == actionManifest.actions[i]
            IN  /\ HasHandle(generatedCode[1], action)
                /\ HasAccessor(generatedCode[1], action) <=> action.type \in ReadTypes

\* C8, amended: the unit holds a handle declaration and field for every action;
\* one accessor is emitted per action of the six read types, in manifest order,
\* and none for a vibration action, so that get_<c> is in the unit exactly when
\* some action canonicalizing to c has one of the six types.
C8_AccessorPerInputAction ==
    generatedCode # <<>> =>
        LET unit == generatedCode[1]
            inputs == SelectSeq(actionManifest.actions, LAMBDA a : a.type \in ReadTypes)
        IN  /\ \A i \in DOMAIN actionManifest.actions :
                 LET action == actionManifest.actions[i]
                 IN  /\ HasHandle(unit, action)
                     /\ HasAccessor(unit, action) <=>
                          \E j \in DOMAIN actionManifest.actions :
                              /\ actionManifest.actions[j].type \in ReadTypes
                              /\ canonicalizedActionName(actionManifest.actions[j].name)
                                   = canonicalizedActionName(action.name)
            /\ Len(unit.accessors) = Len(inputs)
            /\ \A k \in DOMAIN inputs :
                 unit.accessors[k].fn = GET_ \o canonicalizedActionName(inputs[k].name)

\* A skeleton action and a vibration action of different names: the first has
\* its accessor, the second only its handle.
C8_Witness ==
    /\ generatedCode # <<>>
    /\ actionManifest.actions = <<[name |-> SlashA, type |-> "skeleton"],
                                  [name |-> SlashB, type |-> "vibration"]>>
    /\ Len(generatedCode[1].accessors) = 1
    /\ generatedCode[1].accessors[1].fn = <<"g", "e", "t", "_", "a">>
    /\ HasHandle(generatedCode[1], actionManifest.actions[2])
    /\ ~HasAccessor(generatedCode[1], actionManifest.actions[2])

\* The functions of the unit named activate_<c> or deactivate_<c>.
ControlsOf(unit, c) ==
    {i \in DOMAIN unit.controls : unit.controls[i].fn \in {ACTIVATE_ \o c, DEACTIVATE_ \o c}}

\* C9 as stated: for every action set the unit holds exactly two control
\* functions, activate_<c> and deactivate_<c>, each forwarding to one generic
\* set-activation-state primitive with the set's stored handle and the boolean
\* state, true for activate and false for deactivate.
C9_ControlsForwardHandleAndState ==
    generatedCode # <<>> =>
        \A k \in DOMAIN actionManifest.action_sets :
            LET c == canonicalizedActionSetName(actionManifest.action_sets[k].name)
                unit == generatedCode[1]
                handle == [kind |-> "field", name |-> ACTION_SET_HANDLE_ \o c]
            IN  /\ Cardinality(ControlsOf(unit, c)) = 2
                /\ \E i, j \in ControlsOf(unit, c) :
                     /\ unit.controls[i].fn = ACTIVATE_ \o c
                     /\ unit.controls[j].fn = DEACTIVATE_ \o c
                     /\ unit.controls[i].callee = unit.controls[j].callee
                     /\ unit.controls[i].args = <<handle, [kind |-> "literal", name |-> <<"true">>]>>
                     /\ unit.controls[j].args = <<handle, [kind |-> "literal", name |-> <<"false">>]>>

\* C9, amended: the unit holds two control functions per action set, in
\* manifest order (2n functions for n sets): activate_<c>, which calls
\* activate_action_set, and deactivate_<c>, which calls deactivate_action_set,
\* each passing the set's stored handle action_set_handle_<c> as its only
\* argument.
C9_ControlsForwardHandle ==
    generatedCode # <<>> =>
        LET unit == generatedCode[1]
        IN  /\ Len(unit.controls) = 2 * Len(actionManifest.action_sets)
            /\ \A k \in DOMAIN actionManifest.action_sets :
                 LET c == canonicalizedActionSetName(actionManifest.action_sets[k].name)
                     handle == [kind |-> "field", name |-> ACTION_SET_HANDLE_ \o c]
                 IN  /\ unit.controls[2 * k - 1] =
                           [fn |-> ACTIVATE_ \o c, callee |-> "activate_action_set",
                            args |-> <<handle>>]
                     /\ unit.controls[2 * k] =
                           [fn |-> DEACTIVATE_ \o c, callee |-> "deactivate_action_set",
                            args |-> <<handle>>]

\* One action set "/s": activate_s and deactivate_s, the second calling
\* deactivate_action_set.
C9_Witness ==
    /\ generatedCode # <<>>
    /\ Len(actionManifest.action_sets) = 1
    /\ actionManifest.action_sets[1].name = SlashS
    /\ Len(generatedCode[1].controls) = 2
    /\ generatedCode[1].controls[2].fn = <<"d", "e", "a", "c", "t", "i", "v", "a", "t", "e", "_", "s">>
    /\ generatedCode[1].controls[2].callee = "deactivate_action_set"

\* C10: a manifest that validateManifest returns as validated has pairwise
\* distinct action names and pairwise distinct action-set names.
C10_ValidatedNamesUnique ==
    (vResult # <<>> /\ vResult[1].success)
        => /\ PairwiseDistinctNames(vResult[1].data.actions)
           /\ PairwiseDistinctNames(vResult[1].data.action_sets)

\* The binding file is missing, is not JSON, is a falsy JSON value or fails
\* BindingFileSchema.
BindingFileFails(file) ==
    ~(file.kind = "object" /\ BindingFileKeys \subseteq file.keys)

\* C11: the binding files are read one at a time in the order of
\* default_bindings, and the first one that fails ends the loop: the k-th read
\* is the file of the k-th entry, a failing file is the last one read, and a
\* run that ended on a failing file at position i has read exactly the files of
\* positions 1..i; a run that returned success has read them all.
C11_BindingsReadInOrderUntilFailure ==
    /\ Len(reads) <= Len(parsedManifest.default_bindings)
    /\ \A k \in DOMAIN reads :
         /\ reads[k].path = [dir |-> "dirname(manifestPath)",
                             file |-> manifestFile.value.default_bindings[k].binding_url]
         /\ BindingFileFails(reads[k].file) => (k = Len(reads) /\ ValidateManifestEnded)
    /\ (reads # <<>> /\ BindingFileFails(reads[Len(reads)].file)) =>
         (vpc = "threw" \/ vResult = <<VALIDATION_FAILED>>)
    /\ (vResult # <<>> /\ vResult[1].success) =>
         Len(reads) = Len(manifestFile.value.default_bindings)

\* Two default bindings, the first file fails: it alone has been read and the
\* run has ended.
C11_Witness ==
    /\ Len(manifestFile.value.default_bindings) = 2
    /\ Len(reads) = 1
    /\ BindingFileFails(reads[1].file)
    /\ vpc = "exited"

\* The i-th localization entry has no key, other than language_tag, for some
\* declared action name.
EntryDeficient(manifest, i) ==
    \E j \in DOMAIN manifest.actions :
        manifest.actions[j].name \notin (manifest.localization[i] \ {LANGUAGE_TAG})

DeficientEntries(manifest) ==
    {i \in DOMAIN manifest.localization : EntryDeficient(manifest, i)}

\* Number of localization diagnostics written so far.
LocalizationDiagnostics ==
    Cardinality({k \in DOMAIN vErr : vErr[k] = "Localization is missing for actions: names"})

\* validateManifest returned failure from inside the localization loop.
AbortedAtLocalization ==
    /\ vResult = <<VALIDATION_FAILED>>
    /\ locIdx \in DOMAIN manifestFile.value.localization

\* C12: the steps run in the order parse, schema check, localization check,
\* binding check, each ending the run on its first failure.  With the flag off
\* the run aborts at the first deficient localization entry: no later entry is
\* examined and no binding file is read.  With the flag on every entry is
\* examined, with one diagnostic per deficient entry, and the binding check
\* then runs.
C12_StepsInOrderShortCircuit ==
    LET manifest == manifestFile.value
        entries == Len(manifest.localization)
    IN  \* parse, then schema, before the localization loop
        /\ locIdx >= 1 => (~ReadJsonThrows(manifestFile) /\ ActionManifestSchema(manifestFile))
        \* the localization loop, before the binding loop
        /\ (bindIdx >= 1 \/ reads # <<>>) => (locIdx = entries + 1 /\ bindIdx >= 1)
        \* the entries before the current one have been passed
        /\ locIdx >= 1 =>
             /\ locIdx <= entries + 1
             /\ \A i \in 1..(locIdx - 1) : EntryDeficient(manifest, i) => allowMissingLocalization
             /\ LocalizationDiagnostics =
                  Cardinality({i \in DeficientEntries(manifest) : i < locIdx})
                    + (IF AbortedAtLocalization THEN 1 ELSE 0)
        \* flag off: the run ends at the first deficient entry
        /\ (ValidateManifestEnded /\ ActionManifestSchema(manifestFile)
              /\ ~allowMissingLocalization /\ DeficientEntries(manifest) # {}) =>
             /\ vResult = <<VALIDATION_FAILED>>
             /\ locIdx \in DeficientEntries(manifest)
             /\ \A i \in DeficientEntries(manifest) : locIdx <= i
             /\ LocalizationDiagnostics = 1
             /\ reads = <<>> /\ bindIdx = 0
        \* flag on: every entry is examined and the binding check runs
        /\ (ValidateManifestEnded /\ ActionManifestSchema(manifestFile)
              /\ allowMissingLocalization) =>
             /\ locIdx = entries + 1
             /\ LocalizationDiagnostics = Cardinality(DeficientEntries(manifest))
             /\ bindIdx >= 1
        \* a failure of the parse or of the schema check ends the run there
        /\ (ValidateManifestEnded /\ ~ActionManifestSchema(manifestFile)) =>
             (locIdx = 0 /\ bindIdx = 0 /\ reads = <<>> /\ LocalizationDiagnostics = 0
                /\ (vpc = "threw" \/ vResult = <<VALIDATION_FAILED>>))

\* Flag on, two deficient entries: two diagnostics, then a binding file is read.
C12_Witness ==
    /\ allowMissingLocalization
    /\ DeficientEntries(manifestFile.value) = {1, 2}
    /\ LocalizationDiagnostics = 2
    /\ reads # <<>>

\* The handle fields self.generated_fields.<name> a generated function refers to.
FieldArgs(function) ==
    {function.args[i].name : i \in {j \in DOMAIN function.args : function.args[j].kind = "field"}}

\* The let statement whose binding is in scope at the GeneratedFields literal:
\* the last one of generate_fields that binds the identifier.
InitialisedFrom(unit, field) ==
    LET declarations == unit.generate_fields.declarations
        binding == {k \in DOMAIN declarations : declarations[k].let = field}
    IN  declarations[CHOOSE k \in binding : \A m \in binding : m <= k]

\* The field is declared in the structure with its type, named in the
\* GeneratedFields literal and bound by a let statement of generate_fields.
Declared(unit, field, type) ==
    /\ [field |-> field, type |-> type] \in Range(unit.struct)
    /\ field \in Range(unit.generate_fields.fields)
    /\ \E k \in DOMAIN unit.generate_fields.declarations :
           unit.generate_fields.declarations[k].let = field

\* C13 as stated (for a manifest whose action names are pairwise distinct and
\* whose action-set names are pairwise distinct): every handle field an accessor
\* or a control function refers to is the identifier of its own manifest name,
\* is a field of the structure and is initialised from the handle fetched for
\* that same manifest name; the structure holds exactly one field per action
\* and one per action set.
C13_OneFieldPerName ==
    (/\ generatedCode # <<>>
     /\ PairwiseDistinctNames(actionManifest.actions)
     /\ PairwiseDistinctNames(actionManifest.action_sets)) =>
        LET unit == generatedCode[1]
            inputs == SelectSeq(actionManifest.actions, LAMBDA a : a.type \in ReadTypes)
            sets == actionManifest.action_sets
        IN  /\ \A k \in DOMAIN inputs : \A f \in FieldArgs(unit.accessors[k]) :
                 /\ f = ACTION_HANDLE_ \o canonicalizedActionName(inputs[k].name)
                 /\ Declared(unit, f, "sys::VRActionHandle_t")
                 /\ InitialisedFrom(unit, f) =
                      [let |-> f, callee |-> "get_action_handle", path |-> inputs[k].name]
            /\ \A k \in DOMAIN sets : \A i \in {2 * k - 1, 2 * k} :
                 \A f \in FieldArgs(unit.controls[i]) :
                     /\ f = ACTION_SET_HANDLE_ \o canonicalizedActionSetName(sets[k].name)
                     /\ Declared(unit, f, "sys::VRActionSetHandle_t")
                     /\ InitialisedFrom(unit, f) =
                          [let |-> f, callee |-> "get_action_set_handle", path |-> sets[k].name]
            /\ Len(unit.struct) = Len(actionManifest.actions) + Len(sets)
            /\ \A i, j \in DOMAIN unit.struct :
                 i # j => unit.struct[i].field # unit.struct[j].field

\* The last entry of the list whose name canonicalizes as that of entry k.
LastAlike(list, k) ==
    CHOOSE m \in DOMAIN list :
        /\ canonicalizedActionName(list[m].name) = canonicalizedActionName(list[k].name)
        /\ \A n \in DOMAIN list :
             canonicalizedActionName(list[n].name) = canonicalizedActionName(list[k].name)
               => n <= m

\* C13, amended: every accessor but a skeleton's refers to one handle field,
\* action_handle_<c> for the canonicalized name c of its action, and every
\* control function to action_set_handle_<c> of its action set; the field is
\* declared in the structure and generate_fields holds a let statement fetching
\* the handle of that manifest name.  The structure, the let statements and the
\* GeneratedFields literal hold one entry per action followed by one per action
\* set, in manifest order, so that names canonicalizing alike repeat one
\* identifier and the binding in scope at the literal is the handle of the last
\* such name.
C13_OneEntryPerName ==
    generatedCode # <<>> =>
        LET unit == generatedCode[1]
            actions == actionManifest.actions
            inputs == SelectSeq(actions, LAMBDA a : a.type \in ReadTypes)
            sets == actionManifest.action_sets
            declarations == unit.generate_fields.declarations
        IN  /\ \A k \in DOMAIN inputs :
                 LET f == ACTION_HANDLE_ \o canonicalizedActionName(inputs[k].name)
                 IN  /\ FieldArgs(unit.accessors[k]) =
                          IF inputs[k].type = "skeleton" THEN {} ELSE {f}
                     /\ Declared(unit, f, "sys::VRActionHandle_t")
                     /\ [let |-> f, callee |-> "get_action_handle", path |-> inputs[k].name]
                          \in Range(declarations)
            /\ \A k \in DOMAIN sets : \A i \in {2 * k - 1, 2 * k} :
                 LET f == ACTION_SET_HANDLE_ \o canonicalizedActionSetName(sets[k].name)
                 IN  /\ FieldArgs(unit.controls[i]) = {f}
                     /\ Declared(unit, f, "sys::VRActionSetHandle_t")
                     /\ [let |-> f, callee |-> "get_action_set_handle", path |-> sets[k].name]
                          \in Range(declarations)
            /\ Len(unit.struct) = Len(actions) + Len(sets)
            /\ Len(declarations) = Len(unit.struct)
            /\ Len(unit.generate_fields.fields) = Len(unit.struct)
            /\ \A k \in DOMAIN actions :
                 LET f == ACTION_HANDLE_ \o canonicalizedActionName(actions[k].name)
                 IN  /\ unit.struct[k] = [field |-> f, type |-> "sys::VRActionHandle_t"]
                     /\ unit.generate_fields.fields[k] = f
                     /\ declarations[k] =
                          [let |-> f, callee |-> "get_action_handle", path |-> actions[k].name]
                     /\ InitialisedFrom(unit, f).path = actions[LastAlike(actions, k)].name
            /\ \A k \in DOMAIN sets :
                 LET f == ACTION_SET_HANDLE_ \o canonicalizedActionSetName(sets[k].name)
                 IN  /\ unit.struct[Len(actions) + k] =
                          [field |-> f, type |-> "sys::VRActionSetHandle_t"]
                     /\ unit.generate_fields.fields[Len(actions) + k] = f
                     /\ declarations[Len(actions) + k] =
                          [let |-> f, callee |-> "get_action_set_handle", path |-> sets[k].name]
                     /\ InitialisedFrom(unit, f).path = sets[LastAlike(sets, k)].name

\* Actions "/a" and "a" and the set "/s": get_a is emitted twice, both refer to
\* action_handle_a, which the structure holds twice and whose binding at the
\* literal is the handle of "a"; activate_s refers to action_set_handle_s.
C13_Witness ==
    /\ generatedCode # <<>>
    /\ actionManifest.actions = <<[name |-> SlashA, type |-> "pose"],
                                  [name |-> JustA, type |-> "boolean"]>>
    /\ actionManifest.action_sets = <<[name |-> SlashS, usage |-> "single"]>>
    /\ FieldArgs(generatedCode[1].accessors[1]) = {ACTION_HANDLE_ \o JustA}
    /\ InitialisedFrom(generatedCode[1], ACTION_HANDLE_ \o JustA).path = JustA
    /\ Len(generatedCode[1].struct) = 3
    /\ generatedCode[1].struct[1] = generatedCode[1].struct[2]
    /\ FieldArgs(generatedCode[1].controls[1]) = {ACTION_SET_HANDLE_ \o JustS}
    /\ Declared(generatedCode[1], ACTION_SET_HANDLE_ \o JustS, "sys::VRActionSetHandle_t")

====
